---------------------------- MODULE Spec2Model ----------------------------
(***************************************************************************)
(* The cart / checkout / id-counter core of the PhoneStore storefront      *)
(* (src/src/db.js), as a state machine over the Firestore collections      *)
(* counters, products, cart_items and orders.                              *)
(*                                                                         *)
(* Every awaited store call of a handler is one step.  A db.runTransaction *)
(* callback is one atomic step: the store serialises transactions that     *)
(* touch the same documents, and a retried callback recomputes from what   *)
(* its closure captured outside the transaction.  Reads and writes made    *)
(* outside a transaction (ref.get, ref.set, ref.delete, queries) are       *)
(* separate steps that interleave freely with other requests.              *)
(*                                                                         *)
(* Requests in flight live in the slots of req; a slot is "idle" when no   *)
(* request uses it.  last is what the handler that returned last returned. *)
(***************************************************************************)
EXTENDS Integers, Sequences, FiniteSets, TLC

(* ------------------------------ bounds -------------------------------- *)
NUsers == 2
NProducts == 2
MaxStock == 2
MaxQty == 2
NSlots == 2
MaxOps == 4
MaxId == 3

Users == 1..NUsers
Products == 1..NProducts
Slots == 1..NSlots
OrderIds == 1..MaxId
ProductIds == 1..MaxId
UserIds == 1..MaxId
Stocks == 0..MaxStock
Quantities == 1..MaxQty

Min(a, b) == IF a < b THEN a ELSE b

(* ------------------------- documents of the store ---------------------- *)
CounterKeys == {"users", "products", "orders"}

NoProduct == [exists |-> FALSE, name |-> "", price |-> 0, stock |-> 0]
ProductDoc(n, pr, s) == [exists |-> TRUE, name |-> n, price |-> pr, stock |-> s]

\* users/{id}: the field registration looks at; an email is a sequence of
\* characters.
NoUser == [exists |-> FALSE, email |-> << >>]
UserDoc(email) == [exists |-> TRUE, email |-> email]

\* The email of the account of shop user u.
SeedEmail(u) == << "u", ToString(u), "@", "x" >>

\* cart_items/{id}: the fields addToCart and updateCartItem write.
NoRow == [exists |-> FALSE, user_id |-> 0, product_id |-> 0, quantity |-> 0]
Row(u, p, q) == [exists |-> TRUE, user_id |-> u, product_id |-> p, quantity |-> q]

NoOrder == [exists |-> FALSE, user_id |-> 0, total_amount |-> 0,
            status |-> "", items |-> << >>]

\* The product as the seed wrote it, and as an admin edit rewrites it: the
\* edit form always posts name, price and stock together.
SeedName(p) == IF p = 1 THEN "iPhone 16 Pro" ELSE "Samsung Galaxy S26"
SeedPrice(p) == p
Payloads == { [name |-> "Edited", price |-> 3, stock |-> s] : s \in Stocks }

(* ------------------------------ requests ------------------------------ *)
NoResult == [ok |-> FALSE, error |-> "", removed |-> FALSE, order |-> NoOrder]
Ok == [ok |-> TRUE, error |-> "", removed |-> FALSE, order |-> NoOrder]
Removed == [ok |-> TRUE, error |-> "", removed |-> TRUE, order |-> NoOrder]
Failed(msg) == [ok |-> FALSE, error |-> msg, removed |-> FALSE, order |-> NoOrder]
OkOrder(o) == [ok |-> TRUE, error |-> "", removed |-> FALSE, order |-> o]

ProductNotFound == "Product not found."
NotEnoughStock == "Not enough stock available."
EmptyCart == "Your cart is empty."
ProductNotFoundInCart == "Product not found in cart."
InsufficientStock(name) == "Insufficient stock for " \o name \o "."
Null == "null"
ReadAfterWrite == "Firestore transactions require all reads to be executed before all writes."
StoreUnavailable == "store unavailable"
InvalidInput == "Invalid input. Password must be at least 6 characters."
EmailInUse == "Email already in use."

\* pc: where the handler stands; u, p, q: its arguments; rd: the value it read
\* (addToCart's current, updateCartItem's product.stock); snap: the documents of
\* its query; oid: the id nextId gave it.
Idle == [pc |-> "idle", op |-> "", u |-> 0, p |-> 0, q |-> 0, rd |-> 0,
         snap |-> << >>, oid |-> 0, key |-> "", email |-> << >>, id |-> 0]

\* A returned call: the handler, its arguments and locals, and its result.
Returned(op, u, p, q, rd, oid, res) ==
    [op |-> op, u |-> u, p |-> p, q |-> q, rd |-> rd, oid |-> oid, res |-> res]

NoCall == Returned("", 0, 0, 0, 0, 0, NoResult)

VARIABLES
    counters,   \* counters/{key}: [exists, value]
    products,   \* products/{id}
    cart,       \* cart_items/{user}_{product}
    orders,     \* orders/{id}
    users,      \* users/{id}
    req,        \* the requests in flight, one per slot
    last,       \* history: the call that returned last
    issued,     \* history: the values nextId returned, per key, in order
    abandoned,  \* history: order ids whose checkout transaction failed
    nops        \* requests started so far

vars == << counters, products, cart, orders, users, req, last, issued, abandoned,
          nops >>

store == << counters, products, cart, orders, users >>

(* ------------------------------- nextId -------------------------------- *)
\* db.js:78  const current = snap.exists ? Number(snap.data().value || 1) : 1
NextIdCurrent(snap) ==
    IF snap.exists THEN (IF snap.value = 0 THEN 1 ELSE snap.value) ELSE 1

\* NextIdStored skipping a value.
NextIdStored_Skip(current) == current + 2

\* NextIdStored writing the value back unchanged.
NextIdStored_Same(current) == current

\* db.js:79  tx.set(ref, { value: current + 1 }, { merge: true })
NextIdStored(current) == current + 1

\* NextIdCommit without the tx.set of line 79.
NextIdCommit_NoWrite(key) == counters

\* The committed nextId transaction on counters/{key}: the new counters
\* collection.  The value it returns is NextIdCurrent(counters[key]).
NextIdCommit(key) ==
    [counters EXCEPT ![key] =
        [exists |-> TRUE, value |-> NextIdStored(NextIdCurrent(counters[key]))]]

(* ------------------------------ cart rows ------------------------------ *)
\* The ids of the documents of cart_items: `${uId}_${pId}` as the pair.
CartRefs == Users \X Products

\* CartRef naming the row of the first user, whoever asks.
CartRef_Shared(u, p) == << 1, p >>

\* db.js:274  addToCart's cartRef = cart_items.doc(`${uId}_${pId}`)
CartRef(u, p) == <<u, p>>

\* UpdateCartRef building the id as `${pId}_${uId}`.
UpdateCartRef_Swapped(u, p) == <<p, u>>

\* db.js:305  updateCartItem's cartRef = cart_items.doc(`${uId}_${pId}`)
UpdateCartRef(u, p) == <<u, p>>

\* RemoveCartRef addressing the user's first row whatever the product.
RemoveCartRef_FirstRow(u, p) == <<u, 1>>

\* db.js:331  removeCartItem's cart_items.doc(`${uId}_${pId}`)
RemoveCartRef(u, p) == <<u, p>>

\* The documents of cart_items in document-id order, each with its ref.
CartRefAt(i) == << ((i - 1) \div NProducts) + 1, ((i - 1) % NProducts) + 1 >>

CartDocs ==
    [i \in 1..(NUsers * NProducts) |->
        [ref |-> CartRefAt(i), exists |-> cart[CartRefAt(i)].exists,
         user_id |-> cart[CartRefAt(i)].user_id,
         product_id |-> cart[CartRefAt(i)].product_id,
         quantity |-> cart[CartRefAt(i)].quantity]]

\* CartOfUser without the where clause: every user's rows.
CartOfUser_NoFilter(u) ==
    LET Exists(d) == d.exists IN SelectSeq(CartDocs, Exists)

\* db.js:336  cart_items where user_id == uId
CartOfUser(u) ==
    LET Mine(d) == d.exists /\ d.user_id = u IN SelectSeq(CartDocs, Mine)

\* db.js:237  cart_items where product_id == productId
CartOfProduct(p) ==
    LET Refers(d) == d.exists /\ d.product_id = p IN SelectSeq(CartDocs, Refers)

\* db.js:285  cartSnap.exists ? Number(cartSnap.data().quantity || 0) : 0
CartCurrent(row) == IF row.exists THEN row.quantity ELSE 0

\* AddToCartQty forgetting the quantity already in the cart.
AddToCartQty_NoCurrent(current, quantity, stock) == Min(quantity, stock)

\* db.js:286  Math.min(current + quantity, Number(product.stock))
AddToCartQty(current, quantity, stock) == Min(current + quantity, stock)

\* AddToCartError without the stock refusal of line 282.
AddToCartError_NoStockCheck(product, quantity) ==
    IF ~product.exists THEN ProductNotFound ELSE ""

\* AddToCartError comparing the stock before looking at productSnap.exists.
AddToCartError_StockFirst(product, quantity) ==
    IF product.stock < quantity THEN NotEnoughStock
    ELSE IF ~product.exists THEN ProductNotFound
    ELSE ""

\* db.js:279-282  the two refusals of addToCart, "" when it goes on
AddToCartError(product, quantity) ==
    IF ~product.exists THEN ProductNotFound
    ELSE IF product.stock < quantity THEN NotEnoughStock
    ELSE ""

\* UpdateCartQty writing the requested quantity unclamped.
UpdateCartQty_NoClamp(quantity, stock) == quantity

\* db.js:320  Math.min(Number(quantity), Number(product.stock))
UpdateCartQty(quantity, stock) == Min(quantity, stock)

(* ------------------------------ checkout ------------------------------- *)
\* LineError without the stock comparison of line 357.
LineError_NoStockCheck(c, prods) ==
    IF ~prods[c.product_id].exists THEN ProductNotFoundInCart ELSE ""

\* db.js:352-359  what one cart line throws, "" when it passes
LineError(c, prods) ==
    IF ~prods[c.product_id].exists THEN ProductNotFoundInCart
    ELSE IF c.quantity > prods[c.product_id].stock
         THEN InsufficientStock(prods[c.product_id].name)
    ELSE ""

\* ValidateCart stopping after the first cart line.
ValidateCart_FirstLineOnly(snap, prods) ==
    IF snap = << >> THEN "" ELSE LineError(Head(snap), prods)

\* db.js:347-367  the first loop: the error of the first line that throws
RECURSIVE ValidateCart(_, _)
ValidateCart(snap, prods) ==
    IF snap = << >> THEN ""
    ELSE IF LineError(Head(snap), prods) # "" THEN LineError(Head(snap), prods)
    ELSE ValidateCart(Tail(snap), prods)

\* db.js:361-366  items.push({product_id, name, quantity, price_at_purchase})
OrderItem(c, prods) ==
    [product_id |-> c.product_id, name |-> prods[c.product_id].name,
     quantity |-> c.quantity, price_at_purchase |-> prods[c.product_id].price]

OrderItems(snap, prods) == [i \in 1..Len(snap) |-> OrderItem(snap[i], prods)]

\* db.js:369  items.reduce((sum, i) => sum + price_at_purchase * quantity, 0)
RECURSIVE OrderTotal(_)
OrderTotal(items) ==
    IF items = << >> THEN 0
    ELSE Head(items).price_at_purchase * Head(items).quantity
         + OrderTotal(Tail(items))

\* db.js:371-380  the Order document
OrderDoc(u, items) ==
    [exists |-> TRUE, user_id |-> u, total_amount |-> OrderTotal(items),
     status |-> "Pending", items |-> items]

\* StockAfter writing the stock back as it was read.
StockAfter_NoDecrement(stock, quantity) == stock

\* db.js:388  tx.update(pRef, { stock: Number(p.stock) - Number(c.quantity) })
StockAfter(stock, quantity) == stock - quantity

\* The quantity the snapshot holds for product p, 0 when it has no line.
RECURSIVE SnapQty(_, _)
SnapQty(snap, p) ==
    IF snap = << >> THEN 0
    ELSE IF Head(snap).product_id = p THEN Head(snap).quantity
    ELSE SnapQty(Tail(snap), p)

SnapHas(snap, p) == \E i \in 1..Len(snap) : snap[i].product_id = p

SnapRefs(snap) == { snap[i].ref : i \in 1..Len(snap) }

\* db.js:382-390  the committed product and cart collections: one stock update
\* per line, from the committed stock, and the delete of every loaded document.
ProductsAfterOrder(snap) ==
    [p \in ProductIds |->
        IF SnapHas(snap, p)
        THEN [products[p] EXCEPT !.stock = StockAfter(products[p].stock, SnapQty(snap, p))]
        ELSE products[p]]

CartAfterOrder(snap) ==
    [k \in CartRefs |-> IF k \in SnapRefs(snap) THEN NoRow ELSE cart[k]]

(* ------------------------------ the slots ------------------------------ *)
\* A new request takes the lowest slot no request is using.
Free(r) ==
    /\ req[r].pc = "idle"
    /\ \A s \in Slots : s < r => req[s].pc # "idle"

Begin(r) ==
    /\ Free(r)
    /\ nops < MaxOps
    /\ nops' = nops + 1

\* The handler of slot r returns res: the slot is free again.
Return(r, res) ==
    /\ req' = [req EXCEPT ![r] = Idle]
    /\ last' = Returned(req[r].op, req[r].u, req[r].p, req[r].q, req[r].rd,
                        req[r].oid, res)

\* The handler of slot r goes on to its next awaited call.
Goto(r, next) ==
    /\ req' = [req EXCEPT ![r] = next]
    /\ UNCHANGED last

Init ==
    /\ counters = [k \in CounterKeys |->
                     [exists |-> TRUE,
                      value |-> IF k = "products" THEN NProducts + 1
                                ELSE IF k = "users" THEN NUsers + 1 ELSE 1]]
    /\ \E st \in [Products -> 1..MaxStock] :
          products = [p \in ProductIds |->
                        IF p \in Products
                        THEN ProductDoc(SeedName(p), SeedPrice(p), st[p])
                        ELSE NoProduct]
    /\ cart = [k \in CartRefs |-> NoRow]
    /\ orders = [o \in OrderIds |-> NoOrder]
    /\ req = [r \in Slots |-> Idle]
    /\ last = NoCall
    /\ users = [i \in UserIds |->
                  IF i \in Users THEN UserDoc(SeedEmail(i)) ELSE NoUser]
    /\ issued = [k \in CounterKeys |->
                   IF k = "products" THEN [i \in 1..NProducts |-> i]
                   ELSE IF k = "users" THEN [i \in 1..NUsers |-> i] ELSE << >>]
    /\ abandoned = {}
    /\ nops = 0

(* ------------------------------ addToCart ------------------------------ *)
\* db.js:271-300: one transaction.
addToCart(r, u, p, quantity) ==
    /\ Begin(r)
    /\ LET err == AddToCartError(products[p], quantity)
           current == CartCurrent(cart[CartRef(u, p)]) IN
       IF err # ""
       THEN /\ last' = Returned("addToCart", u, p, quantity, 0, 0, Failed(err))
            /\ UNCHANGED cart
       ELSE /\ cart' = [cart EXCEPT ![CartRef(u, p)] =
                          Row(u, p, AddToCartQty(current, quantity, products[p].stock))]
            /\ last' = Returned("addToCart", u, p, quantity, current, 0, Ok)
    /\ UNCHANGED << counters, products, orders, users, req, issued, abandoned >>

(* ---------------------------- updateCartItem --------------------------- *)
\* db.js:307-313: the delete of a quantity <= 0, or the read of the product.
updateCartItem(r, u, p, quantity) ==
    /\ Begin(r)
    /\ IF quantity <= 0
       THEN /\ cart' = [cart EXCEPT ![UpdateCartRef(u, p)] = NoRow]
            /\ last' = Returned("updateCartItem", u, p, quantity, 0, 0, Removed)
            /\ UNCHANGED req
       ELSE /\ UNCHANGED cart
            /\ IF ~products[p].exists
               THEN /\ last' = Returned("updateCartItem", u, p, quantity, 0, 0,
                                        Failed(ProductNotFound))
                    /\ UNCHANGED req
               ELSE Goto(r, [Idle EXCEPT !.pc = "uc_set", !.op = "updateCartItem",
                                         !.u = u, !.p = p, !.q = quantity,
                                         !.rd = products[p].stock])
    /\ UNCHANGED << counters, products, orders, users, issued, abandoned >>

\* db.js:316-325: the write of the row, with the stock read before.
updateCartItem_set(r) ==
    /\ req[r].pc = "uc_set"
    /\ cart' = [cart EXCEPT ![UpdateCartRef(req[r].u, req[r].p)] =
                  Row(req[r].u, req[r].p, UpdateCartQty(req[r].q, req[r].rd))]
    /\ Return(r, Ok)
    /\ UNCHANGED << counters, products, orders, users, issued, abandoned, nops >>

(* ---------------------------- removeCartItem --------------------------- *)
\* db.js:328-332
removeCartItem(r, u, p) ==
    /\ Begin(r)
    /\ cart' = [cart EXCEPT ![RemoveCartRef(u, p)] = NoRow]
    /\ last' = Returned("removeCartItem", u, p, 0, 0, 0, Ok)
    /\ UNCHANGED << counters, products, orders, users, req, issued, abandoned >>

(* ------------------------------ createOrder ---------------------------- *)
\* db.js:336-337: the cart query, outside any transaction.
createOrder(r, u) ==
    /\ Begin(r)
    /\ IF CartOfUser(u) = << >>
       THEN /\ last' = Returned("createOrder", u, 0, 0, 0, 0, Failed(EmptyCart))
            /\ UNCHANGED req
       ELSE Goto(r, [Idle EXCEPT !.pc = "co_nextId", !.op = "createOrder", !.u = u,
                                 !.snap = CartOfUser(u)])
    /\ UNCHANGED << store, issued, abandoned >>

\* db.js:339: nextId('orders') commits and returns the id, or the store fails the
\* transaction and createOrder rejects (the call is outside the try).
createOrder_nextId(r) ==
    /\ req[r].pc = "co_nextId"
    /\ \/ /\ NextIdCurrent(counters["orders"]) <= MaxId
          /\ counters' = NextIdCommit("orders")
          /\ issued' = [issued EXCEPT !["orders"] =
                          Append(@, NextIdCurrent(counters["orders"]))]
          /\ Goto(r, [req[r] EXCEPT !.pc = "co_tx",
                                    !.oid = NextIdCurrent(counters["orders"])])
       \/ /\ Return(r, Failed(StoreUnavailable))
          /\ UNCHANGED << counters, issued >>
    /\ UNCHANGED << products, cart, orders, users, abandoned, nops >>

\* db.js:343-391: the calls the transaction callback issues on tx, in the order
\* of the code: one tx.get per cart row (line 350) up to the row that throws
\* (lines 352-359); when no row throws, tx.set of the order (line 371) and then,
\* per cart row, tx.get (line 385), tx.update (line 388) and tx.delete (line 389).
RECURSIVE ValidateCalls(_, _)
ValidateCalls(snap, prods) ==
    IF snap = << >> THEN << >>
    ELSE IF LineError(Head(snap), prods) # "" THEN << "get" >>
    ELSE << "get" >> \o ValidateCalls(Tail(snap), prods)

RECURSIVE WriteCalls(_)
WriteCalls(snap) ==
    IF snap = << >> THEN << >>
    ELSE << "get", "update", "delete" >> \o WriteCalls(Tail(snap))

TransactionCalls(snap, prods) ==
    IF ValidateCart(snap, prods) # "" THEN ValidateCalls(snap, prods)
    ELSE ValidateCalls(snap, prods) \o << "set" >> \o WriteCalls(snap)

\* The store's protocol: every read of a transaction precedes its first write.
ReadsBeforeWrites(calls) ==
    \A i, j \in 1..Len(calls) :
        (i < j /\ calls[j] = "get") => calls[i] = "get"

\* db.js:343-394: the checkout transaction.  The first loop reads and validates
\* every line; then the order is buffered (tx.set, line 371) and the second loop
\* calls tx.get again (line 385) with that write pending.  What tx.get does then
\* is the store's: the Node server SDK throws ReadAfterWrite, which the catch of
\* line 392 turns into a failed result; a store that serves the read returns the
\* committed product.  Both outcomes are steps of the model.
createOrder_transaction(r) ==
    /\ req[r].pc = "co_tx"
    /\ LET snap == req[r].snap
           err == ValidateCart(snap, products) IN
       \/ /\ err # ""
          /\ Return(r, Failed(err))
          /\ abandoned' = abandoned \cup {req[r].oid}
          /\ UNCHANGED << products, cart, orders >>
       \/ /\ err = ""
          /\ ~ReadsBeforeWrites(TransactionCalls(snap, products))
          /\ Return(r, Failed(ReadAfterWrite))
          /\ abandoned' = abandoned \cup {req[r].oid}
          /\ UNCHANGED << products, cart, orders >>
       \/ /\ err = ""
          /\ orders' = [orders EXCEPT ![req[r].oid] =
                          OrderDoc(req[r].u, OrderItems(snap, products))]
          /\ products' = ProductsAfterOrder(snap)
          /\ cart' = CartAfterOrder(snap)
          /\ Goto(r, [req[r] EXCEPT !.pc = "co_get", !.snap = << >>])
          /\ UNCHANGED abandoned
    /\ UNCHANGED << counters, users, issued, nops >>

\* db.js:396-397: the order read back and returned.
createOrder_get(r) ==
    /\ req[r].pc = "co_get"
    /\ Return(r, OkOrder(orders[req[r].oid]))
    /\ UNCHANGED << store, issued, abandoned, nops >>

(* ------------------------- admin: the catalogue ------------------------ *)
\* db.js:218: createProduct mints the id, or the store fails the transaction.
createProduct(r) ==
    /\ Begin(r)
    /\ \/ /\ NextIdCurrent(counters["products"]) <= MaxId
          /\ counters' = NextIdCommit("products")
          /\ issued' = [issued EXCEPT !["products"] =
                          Append(@, NextIdCurrent(counters["products"]))]
          /\ Goto(r, [Idle EXCEPT !.pc = "cp_set", !.op = "createProduct",
                                  !.p = NextIdCurrent(counters["products"])])
       \/ /\ last' = Returned("createProduct", 0, 0, 0, 0, 0, Failed(StoreUnavailable))
          /\ UNCHANGED << counters, issued, req >>
    /\ UNCHANGED << products, cart, orders, users, abandoned >>

\* db.js:219-221: the product document is written under the minted id.
createProduct_set(r) ==
    /\ req[r].pc = "cp_set"
    /\ \E pl \in Payloads :
          products' = [products EXCEPT ![req[r].p] =
                         ProductDoc(pl.name, pl.price, pl.stock)]
    /\ Return(r, Ok)
    /\ UNCHANGED << counters, cart, orders, users, issued, abandoned, nops >>

\* db.js:225-227: updateProduct reads the document; null when it is absent.
updateProduct(r, p) ==
    /\ Begin(r)
    /\ IF ~products[p].exists
       THEN /\ last' = Returned("updateProduct", 0, p, 0, 0, 0, Failed(Null))
            /\ UNCHANGED req
       ELSE Goto(r, [Idle EXCEPT !.pc = "up_set", !.op = "updateProduct", !.p = p])
    /\ UNCHANGED << store, issued, abandoned >>

\* db.js:228-230: set with merge of the posted fields (name, price, stock >= 0 as
\* the route validates, app.js:501); the document is created when a delete came
\* in between.  The read back of line 229 only feeds the returned value.
updateProduct_set(r) ==
    /\ req[r].pc = "up_set"
    /\ \E pl \in Payloads :
          products' = [products EXCEPT ![req[r].p] =
                         ProductDoc(pl.name, pl.price, pl.stock)]
    /\ Return(r, Ok)
    /\ UNCHANGED << counters, cart, orders, users, issued, abandoned, nops >>

\* db.js:235: deleteProduct deletes the product document.
deleteProduct(r, p) ==
    /\ Begin(r)
    /\ products' = [products EXCEPT ![p] = NoProduct]
    /\ Goto(r, [Idle EXCEPT !.pc = "dp_query", !.op = "deleteProduct", !.p = p])
    /\ UNCHANGED << counters, cart, orders, users, issued, abandoned >>

\* db.js:237: the query of the cart rows that reference the product.
deleteProduct_query(r) ==
    /\ req[r].pc = "dp_query"
    /\ IF CartOfProduct(req[r].p) = << >>
       THEN Return(r, Ok)
       ELSE Goto(r, [req[r] EXCEPT !.pc = "dp_delete",
                                   !.snap = CartOfProduct(req[r].p)])
    /\ UNCHANGED << store, issued, abandoned, nops >>

\* db.js:238-239: the deletes of Promise.all land one by one, in any order.
deleteProduct_delete(r) ==
    /\ req[r].pc = "dp_delete"
    /\ \E i \in 1..Len(req[r].snap) :
          LET c == req[r].snap[i]
              rest == SubSeq(req[r].snap, 1, i - 1)
                        \o SubSeq(req[r].snap, i + 1, Len(req[r].snap)) IN
          /\ cart' = [cart EXCEPT ![c.ref] = NoRow]
          /\ IF rest = << >>
             THEN Return(r, Ok)
             ELSE Goto(r, [req[r] EXCEPT !.snap = rest])
    /\ UNCHANGED << counters, products, orders, users, issued, abandoned, nops >>

(* ------------------------------- search -------------------------------- *)
\* Text is a sequence of characters; a character outside ASCII is written by
\* its code point.  The texts the catalogue and the queries are drawn from:
Text_iPhone16Pro == << "i", "P", "h", "o", "n", "e", " ", "1", "6", " ", "P", "r", "o" >>
Text_iPhone16Pro_Spaced == << "i", "P", "h", "o", "n", "e", " ", " ", "1", "6", " ", "P", "r", "o" >>
Text_iPhone == << "i", "P", "h", "o", "n", "e" >>
Text_WirelessEarbudsPro == << "W", "i", "r", "e", "l", "e", "s", "s", " ", "E", "a", "r", "b", "u", "d", "s", " ", "P", "r", "o" >>
Text_DeVietnamese == << "U+0110", "U+1EBF", " ", "1", "6" >>
Text_ForIPhone16 == << "f", "o", "r", " ", "i", "P", "h", "o", "n", "e", " ", "1", "6" >>
Text_Earbuds == << "e", "a", "r", "b", "u", "d", "s" >>
Text_Query_iphone == << "i", "p", "h", "o", "n", "e" >>
Text_Query_iphone16 == << "i", "P", "h", "o", "n", "e", " ", "1", "6" >>
Text_Query_16iphone == << "1", "6", " ", "i", "p", "h", "o", "n", "e" >>
Text_Query_pro == << "p", "r", "o" >>
Text_Query_de == << "U+0111", "U+1EBF" >>
Text_Query_none == << "x", "y", "z" >>
Text_Padded == << " ", "U+0110", "U+1EBF", " ", " ", "P", "r", "o", " " >>
NoText == << >>

ProductNames == { Text_iPhone16Pro, Text_iPhone16Pro_Spaced, Text_iPhone,
                  Text_WirelessEarbudsPro, Text_DeVietnamese }
Descriptions == { NoText, Text_ForIPhone16, Text_Earbuds }
Queries == { NoText, Text_Query_iphone, Text_Query_iphone16, Text_Query_16iphone,
             Text_Query_pro, Text_Query_de, Text_Query_none }
Texts == { NoText, Text_Padded, Text_iPhone16Pro_Spaced, Text_DeVietnamese,
           Text_Query_de }

MaxTime == 2
Times == 1..MaxTime

Whitespace == { " " }
UpperCase == << "A", "B", "C", "D", "E", "F", "G", "H", "I", "J", "K", "L", "M", "N", "O", "P", "Q", "R", "S", "T", "U", "V", "W", "X", "Y", "Z" >>
LowerCase == << "a", "b", "c", "d", "e", "f", "g", "h", "i", "j", "k", "l", "m", "n", "o", "p", "q", "r", "s", "t", "u", "v", "w", "x", "y", "z" >>

\* db.js:99  .normalize('NFD'): a precomposed letter becomes its base letter
\* followed by its combining marks; U+0110 and U+0111 have no decomposition.
Decompose(c) ==
    IF c = "U+00E1" THEN << "a", "U+0301" >>
    ELSE IF c = "U+1EBF" THEN << "e", "U+0302", "U+0301" >>
    ELSE << c >>

RECURSIVE NFD(_)
NFD(t) == IF t = << >> THEN << >> ELSE Decompose(Head(t)) \o NFD(Tail(t))

\* The combining marks U+0300..U+036F that occur in the texts.
CombiningMarks == { "U+0301", "U+0302" }

\* StripMarks leaving the combining marks in.
StripMarks_None(t) == t

\* db.js:100  .replace(/[U+0300-U+036F]/g, '')
StripMarks(t) == LET Kept(c) == c \notin CombiningMarks IN SelectSeq(t, Kept)

\* db.js:101-102  .replace(/U+0111/g, 'd').replace(/U+0110/g, 'D')
ReplaceD(t) ==
    [i \in 1..Len(t) |->
        IF t[i] = "U+0111" THEN "d" ELSE IF t[i] = "U+0110" THEN "D" ELSE t[i]]

\* db.js:103  .toLowerCase()
LowerChar(c) ==
    IF \E i \in 1..Len(UpperCase) : UpperCase[i] = c
    THEN LowerCase[CHOOSE i \in 1..Len(UpperCase) : UpperCase[i] = c]
    ELSE c

ToLowerCase(t) == [i \in 1..Len(t) |-> LowerChar(t[i])]

\* db.js:104  .trim()
RECURSIVE TrimStart(_)
TrimStart(t) ==
    IF t # << >> /\ Head(t) \in Whitespace THEN TrimStart(Tail(t)) ELSE t

RECURSIVE TrimEnd(_)
TrimEnd(t) ==
    IF t # << >> /\ t[Len(t)] \in Whitespace
    THEN TrimEnd(SubSeq(t, 1, Len(t) - 1)) ELSE t

Trim(t) == TrimEnd(TrimStart(t))

\* db.js:97-105  normalizeText; an undefined value is the empty text
NormalizeText(value) == Trim(ToLowerCase(ReplaceD(StripMarks(NFD(value)))))

\* db.js:185  key.split(/\s+/).filter(Boolean)
RECURSIVE Word(_)
Word(t) ==
    IF t = << >> \/ Head(t) \in Whitespace THEN << >>
    ELSE << Head(t) >> \o Word(Tail(t))

RECURSIVE Split(_)
Split(t) ==
    IF t = << >> THEN << >>
    ELSE IF Head(t) \in Whitespace THEN Split(Tail(t))
    ELSE << Word(t) >> \o Split(SubSeq(t, Len(Word(t)) + 1, Len(t)))

\* String.prototype.includes and startsWith
Includes(s, k) ==
    \E i \in 0..(Len(s) - Len(k)) : SubSeq(s, i + 1, i + Len(k)) = k

StartsWith(s, k) == Len(k) <= Len(s) /\ SubSeq(s, 1, Len(k)) = k

EveryToken(tokens, s) ==
    Len(tokens) > 0 /\ \A i \in 1..Len(tokens) : Includes(s, tokens[i])

\* Score taking the first rule that matches instead of adding them up.
Score_FirstMatch(p, key, tokens) ==
    LET nameNorm == NormalizeText(p.name)
        descNorm == NormalizeText(p.description) IN
    IF nameNorm = key THEN 100
    ELSE IF StartsWith(nameNorm, key) THEN 60
    ELSE IF Includes(nameNorm, key) THEN 40
    ELSE IF EveryToken(tokens, nameNorm) THEN 30
    ELSE IF Includes(descNorm, key) THEN 10
    ELSE IF EveryToken(tokens, descNorm) THEN 5
    ELSE 0

\* db.js:189-200  the score of one product
Score(p, key, tokens) ==
    LET nameNorm == NormalizeText(p.name)
        descNorm == NormalizeText(p.description)
        s0 == 0
        s1 == IF nameNorm = key THEN s0 + 100 ELSE s0
        s2 == IF StartsWith(nameNorm, key) THEN s1 + 60 ELSE s1
        s3 == IF Includes(nameNorm, key) THEN s2 + 40 ELSE s2
        s4 == IF EveryToken(tokens, nameNorm) THEN s3 + 30 ELSE s3
        s5 == IF Includes(descNorm, key) THEN s4 + 10 ELSE s4
        s6 == IF EveryToken(tokens, descNorm) THEN s5 + 5 ELSE s5 IN
    s6

\* db.js:180-181  the snapshot of products, in document-id order
RECURSIVE ProductSnapFrom(_)
ProductSnapFrom(id) ==
    IF id > MaxId THEN << >>
    ELSE (IF products[id].exists
          THEN << [id |-> id, name |-> products[id].name,
                   description |-> products[id].description,
                   created_at |-> products[id].created_at] >>
          ELSE << >>) \o ProductSnapFrom(id + 1)

ProductSnap == ProductSnapFrom(1)

\* db.js:203  the comparator: a sorts before b
RankedBefore(a, b) ==
    \/ a.score > b.score
    \/ a.score = b.score /\ a.product.created_at > b.product.created_at

\* Array.prototype.sort is stable: an element goes behind those it does not
\* sort before.
RECURSIVE Insert(_, _)
Insert(x, s) ==
    IF s = << >> THEN << x >>
    ELSE IF RankedBefore(x, Head(s)) THEN << x >> \o s
    ELSE << Head(s) >> \o Insert(x, Tail(s))

RECURSIVE Sort(_)
Sort(s) ==
    IF s = << >> THEN << >>
    ELSE Insert(s[Len(s)], Sort(SubSeq(s, 1, Len(s) - 1)))

\* db.js:187-205  map, filter, sort, map
Ranked(q) ==
    LET key == NormalizeText(q)
        tokens == Split(key)
        snap == ProductSnap
        scored == [i \in 1..Len(snap) |->
                     [product |-> snap[i], score |-> Score(snap[i], key, tokens)]]
        Matches(x) == x.score > 0
        sorted == Sort(SelectSeq(scored, Matches)) IN
    [i \in 1..Len(sorted) |-> sorted[i].product.id]

\* db.js:209  without a query: newest first, the comparator of line 203 on
\* equal scores.
Listed ==
    LET snap == ProductSnap
        all == [i \in 1..Len(snap) |-> [product |-> snap[i], score |-> 0]]
        sorted == Sort(all) IN
    [i \in 1..Len(sorted) |-> sorted[i].product.id]

OkList(list) ==
    [ok |-> TRUE, error |-> "", removed |-> FALSE, order |-> NoOrder, list |-> list]

\* db.js:173-210  listProducts({ category: '', q }): one read of the collection;
\* q holds the query, rd its normalized key.
listProducts(r, q) ==
    /\ Begin(r)
    /\ last' = Returned("listProducts", 0, 0, q, NormalizeText(q), 0,
                        OkList(IF q # NoText THEN Ranked(q) ELSE Listed))
    /\ UNCHANGED << store, req, issued, abandoned >>

\* db.js:97-105  normalizeText applied to a text; q holds the text, rd the result.
normalizeText(value) ==
    /\ nops < MaxOps
    /\ nops' = nops + 1
    /\ last' = Returned("normalizeText", 0, 0, value, NormalizeText(value), 0, Ok)
    /\ UNCHANGED << store, req, issued, abandoned >>

\* The shop: customers' cart and checkout requests and the admin's edits and
\* deletes of the seeded products.
Next ==
    \/ \E r \in Slots, u \in Users, p \in Products, q \in Quantities :
          addToCart(r, u, p, q)
    \/ \E r \in Slots, u \in Users, p \in Products, q \in 0..MaxQty :
          updateCartItem(r, u, p, q)
    \/ \E r \in Slots : updateCartItem_set(r)
    \/ \E r \in Slots, u \in Users, p \in Products : removeCartItem(r, u, p)
    \/ \E r \in Slots, u \in Users : createOrder(r, u)
    \/ \E r \in Slots : createOrder_nextId(r)
    \/ \E r \in Slots : createOrder_transaction(r)
    \/ \E r \in Slots : createOrder_get(r)
    \/ \E r \in Slots, p \in Products : updateProduct(r, p)
    \/ \E r \in Slots : updateProduct_set(r)
    \/ \E r \in Slots, p \in Products : deleteProduct(r, p)
    \/ \E r \in Slots : deleteProduct_query(r)
    \/ \E r \in Slots : deleteProduct_delete(r)

\* Id issuance: every caller of nextId (createProduct on "products", createOrder
\* on "orders"), with carts filled one unit at a time so that checkouts run.
NextIds ==
    \/ \E r \in Slots, u \in Users, p \in Products : addToCart(r, u, p, 1)
    \/ \E r \in Slots, u \in Users : createOrder(r, u)
    \/ \E r \in Slots : createOrder_nextId(r)
    \/ \E r \in Slots : createOrder_transaction(r)
    \/ \E r \in Slots : createOrder_get(r)
    \/ \E r \in Slots : createProduct(r)
    \/ \E r \in Slots : createProduct_set(r)

Spec == Init /\ [][Next]_vars

SpecIds == Init /\ [][NextIds]_vars

\* The customers alone, on the catalogue as the seed wrote it: no admin creates,
\* edits or deletes a product.
SeedStock(p) == MaxStock

InitSeeded == Init /\ \A p \in Products : products[p].stock = SeedStock(p)

NextCustomers ==
    \/ \E r \in Slots, u \in Users, p \in Products, q \in Quantities :
          addToCart(r, u, p, q)
    \/ \E r \in Slots, u \in Users, p \in Products, q \in 0..MaxQty :
          updateCartItem(r, u, p, q)
    \/ \E r \in Slots : updateCartItem_set(r)
    \/ \E r \in Slots, u \in Users, p \in Products : removeCartItem(r, u, p)
    \/ \E r \in Slots, u \in Users : createOrder(r, u)
    \/ \E r \in Slots : createOrder_nextId(r)
    \/ \E r \in Slots : createOrder_transaction(r)
    \/ \E r \in Slots : createOrder_get(r)

SpecCustomers == InitSeeded /\ [][NextCustomers]_vars

\* The catalogue as a search sees it: two products with name, description and
\* created_at, and nothing else in the store.
SearchDoc(n, d, t) ==
    [exists |-> TRUE, name |-> n, description |-> d, price |-> 1, stock |-> 1,
     created_at |-> t]

NoSearchDoc ==
    [exists |-> FALSE, name |-> NoText, description |-> NoText, price |-> 0,
     stock |-> 0, created_at |-> 0]

InitSearch ==
    /\ counters = [k \in CounterKeys |->
                     [exists |-> TRUE,
                      value |-> IF k = "products" THEN NProducts + 1
                                ELSE IF k = "users" THEN NUsers + 1 ELSE 1]]
    /\ \E n \in [Products -> ProductNames], d \in [Products -> Descriptions],
          t \in [Products -> Times] :
          products = [p \in ProductIds |->
                        IF p \in Products THEN SearchDoc(n[p], d[p], t[p])
                        ELSE NoSearchDoc]
    /\ cart = [k \in CartRefs |-> NoRow]
    /\ orders = [o \in OrderIds |-> NoOrder]
    /\ req = [r \in Slots |-> Idle]
    /\ last = NoCall
    /\ users = [i \in UserIds |->
                  IF i \in Users THEN UserDoc(SeedEmail(i)) ELSE NoUser]
    /\ issued = [k \in CounterKeys |->
                   IF k = "products" THEN [i \in 1..NProducts |-> i]
                   ELSE IF k = "users" THEN [i \in 1..NUsers |-> i] ELSE << >>]
    /\ abandoned = {}
    /\ nops = 0

\* Catalogue search: listProducts over the queries, normalizeText over the texts.
NextSearch ==
    \/ \E r \in Slots, q \in Queries : listProducts(r, q)
    \/ \E value \in Texts : normalizeText(value)

SpecSearch == InitSearch /\ [][NextSearch]_vars

(* ---------------------- registration and start-up ---------------------- *)
Text_Email_Ann == << " ", "A", "n", "n", "@", "X", " " >>
Text_Email_ann == << "a", "n", "n", "@", "x" >>
Text_Email_bob == << "b", "o", "b", "@", "x" >>
Text_Email_admin == << "a", "d", "m", "i", "n", "@", "x" >>

\* What the registration form posts: name, email, password (its length).
Text_Name_Ann == << "A", "n", "n" >>
Text_Name_Blank == << " " >>
Names == { NoText, Text_Name_Blank, Text_Name_Ann }
Emails == { NoText, Text_Email_Ann, Text_Email_ann, Text_Email_bob,
            Text_Email_admin }
PasswordLengths == { 5, 6 }

\* app.js:295  (req.body.email || '').trim().toLowerCase()
RegisterEmail(email) == ToLowerCase(Trim(email))

\* db.js:149-153  findUserByEmail: is a user document with this email stored?
FindUserByEmail(email) ==
    \E i \in UserIds : users[i].exists /\ users[i].email = email

\* app.js:293-307: the form is validated (name and email trimmed) and
\* findUserByEmail queries the users; a taken email ends the request, a free
\* one goes on to createUser.
register(r, name, email, passwordLength) ==
    /\ Begin(r)
    /\ IF Trim(name) = NoText \/ RegisterEmail(email) = NoText
          \/ passwordLength < 6
       THEN /\ last' = Returned("register", 0, 0, email, 0, 0, Failed(InvalidInput))
            /\ UNCHANGED req
       ELSE IF FindUserByEmail(RegisterEmail(email))
       THEN /\ last' = Returned("register", 0, 0, email, 0, 0, Failed(EmailInUse))
            /\ UNCHANGED req
       ELSE Goto(r, [Idle EXCEPT !.pc = "cu_nextId", !.op = "register",
                                 !.email = RegisterEmail(email)])
    /\ UNCHANGED << store, issued, abandoned >>

\* db.js:156: createUser mints the id with nextId('users'), or the store fails
\* the transaction and the request is rejected.
createUser_nextId(r) ==
    /\ req[r].pc = "cu_nextId"
    /\ \/ /\ NextIdCurrent(counters["users"]) <= MaxId
          /\ counters' = NextIdCommit("users")
          /\ issued' = [issued EXCEPT !["users"] =
                          Append(@, NextIdCurrent(counters["users"]))]
          /\ Goto(r, [req[r] EXCEPT !.pc = "cu_set",
                                    !.id = NextIdCurrent(counters["users"])])
       \/ /\ Return(r, Failed(StoreUnavailable))
          /\ UNCHANGED << counters, issued >>
    /\ UNCHANGED << products, cart, orders, users, abandoned, nops >>

\* db.js:157-165: the user document is written under the minted id.
createUser_set(r) ==
    /\ req[r].pc = "cu_set"
    /\ users' = [users EXCEPT ![req[r].id] = UserDoc(req[r].email)]
    /\ Return(r, Ok)
    /\ UNCHANGED << counters, products, cart, orders, issued, abandoned, nops >>

\* db.js:84-95: ensureCounterDocs for one key: ref.get(); a counter that exists is
\* left alone.
ensureCounterDocs(r, key) ==
    /\ Begin(r)
    /\ IF counters[key].exists
       THEN /\ last' = Returned("ensureCounterDocs", 0, 0, 0, 0, 0, Ok)
            /\ UNCHANGED req
       ELSE Goto(r, [Idle EXCEPT !.pc = "ec_set", !.op = "ensureCounterDocs",
                                 !.key = key])
    /\ UNCHANGED << store, issued, abandoned >>

\* db.js:91: ref.set({ value: 1 }) for the counter that was absent when read.
ensureCounterDocs_set(r) ==
    /\ req[r].pc = "ec_set"
    /\ counters' = [counters EXCEPT ![req[r].key] = [exists |-> TRUE, value |-> 1]]
    /\ Return(r, Ok)
    /\ UNCHANGED << products, cart, orders, users, issued, abandoned, nops >>

\* The store as initDb leaves a new project: the counters, the admin's account
\* under id 1, the seeded catalogue.
InitRegister ==
    /\ counters = [k \in CounterKeys |->
                     [exists |-> TRUE,
                      value |-> IF k = "products" THEN NProducts + 1
                                ELSE IF k = "users" THEN 2 ELSE 1]]
    /\ products = [p \in ProductIds |->
                     IF p \in Products
                     THEN ProductDoc(SeedName(p), SeedPrice(p), SeedStock(p))
                     ELSE NoProduct]
    /\ cart = [k \in CartRefs |-> NoRow]
    /\ orders = [o \in OrderIds |-> NoOrder]
    /\ users = [i \in UserIds |->
                  IF i = 1 THEN UserDoc(Text_Email_admin) ELSE NoUser]
    /\ req = [r \in Slots |-> Idle]
    /\ last = NoCall
    /\ issued = [k \in CounterKeys |->
                   IF k = "products" THEN [i \in 1..NProducts |-> i]
                   ELSE IF k = "users" THEN << 1 >> ELSE << >>]
    /\ abandoned = {}
    /\ nops = 0

\* Registration requests, served concurrently.
NextRegister ==
    \/ \E r \in Slots, name \in Names, email \in Emails,
          passwordLength \in PasswordLengths :
          register(r, name, email, passwordLength)
    \/ \E r \in Slots : createUser_nextId(r)
    \/ \E r \in Slots : createUser_set(r)

SpecRegister == InitRegister /\ [][NextRegister]_vars

\* A new project: no document is stored.
InitBoot ==
    /\ counters = [k \in CounterKeys |-> [exists |-> FALSE, value |-> 0]]
    /\ products = [p \in ProductIds |-> NoProduct]
    /\ cart = [k \in CartRefs |-> NoRow]
    /\ orders = [o \in OrderIds |-> NoOrder]
    /\ users = [i \in UserIds |-> NoUser]
    /\ req = [r \in Slots |-> Idle]
    /\ last = NoCall
    /\ issued = [k \in CounterKeys |-> << >>]
    /\ abandoned = {}
    /\ nops = 0

\* Instances starting up on the project while others already serve: an instance
\* serves requests once its own initDb is through, so a caller of nextId(key)
\* runs only when counters/{key} has been written.
NextBoot ==
    \/ \E r \in Slots, key \in CounterKeys : ensureCounterDocs(r, key)
    \/ \E r \in Slots : ensureCounterDocs_set(r)
    \/ \E r \in Slots, email \in { Text_Email_ann, Text_Email_bob } :
          counters["users"].exists /\ register(r, Text_Name_Ann, email, 6)
    \/ \E r \in Slots : createUser_nextId(r)
    \/ \E r \in Slots : createUser_set(r)
    \/ \E r \in Slots : counters["products"].exists /\ createProduct(r)
    \/ \E r \in Slots : createProduct_set(r)

SpecBoot == InitBoot /\ [][NextBoot]_vars

(* ======================================================================= *)
(*                              The claims                                 *)
(* ======================================================================= *)
\* The step in which request r runs its checkout transaction.
TxStep(r) == req[r].pc = "co_tx" /\ req'[r].pc # "co_tx"

\* The step in which the handler of slot r returns.
ReturnStep(r) == req[r].pc # "idle" /\ req'[r].pc = "idle"

\* The step in which a call starts that returns at once.
AtomicStep(op) == nops' = nops + 1 /\ req' = req /\ last'.op = op

AddStep == AtomicStep("addToCart")

StoreUnchanged == UNCHANGED << products, cart, orders >>

\* Some line of the loaded cart asks for more than the stock, or for a product
\* that no longer exists.
SomeLineFails(snap) ==
    \E i \in 1..Len(snap) :
        \/ ~products[snap[i].product_id].exists
        \/ snap[i].quantity > products[snap[i].product_id].stock

AllExist(snap) == \A i \in 1..Len(snap) : products[snap[i].product_id].exists

\* The first line of the snapshot that is over stock.
RECURSIVE FirstOverStock(_)
FirstOverStock(snap) ==
    IF snap[1].quantity > products[snap[1].product_id].stock THEN snap[1]
    ELSE FirstOverStock(Tail(snap))

\* Every write of the checkout of r lands in this step: the order, one stock
\* decrement per line, the delete of every loaded row.
AllWritten(r) ==
    /\ orders'[req[r].oid].exists
    /\ \A i \in 1..Len(req[r].snap) :
          LET c == req[r].snap[i] IN
          /\ products'[c.product_id].stock = products[c.product_id].stock - c.quantity
          /\ ~cart'[c.ref].exists

\* C1: every product's stock is >= 0 in every reachable state, under every
\* interleaving of addToCart, updateCartItem and createOrder of any users (and
\* of the admin's validated edits and deletes).
C1_StockNonNegative == \A p \in ProductIds : products[p].stock >= 0

\* C1 witness: checkouts have driven a seeded product's stock down to 0.
C1_Witness ==
    \E p \in Products, o \in OrderIds :
        /\ products[p].exists /\ products[p].name = SeedName(p)
        /\ products[p].stock = 0
        /\ orders[o].exists
        /\ \E i \in 1..Len(orders[o].items) : orders[o].items[i].product_id = p

\* Two checkouts of different users are both about to run their transaction,
\* each loaded cart fits the current stock, and on some shared product the two
\* together ask for more than the stock.
Racing(r1, r2) ==
    /\ r1 # r2
    /\ req[r1].pc = "co_tx" /\ req[r2].pc = "co_tx"
    /\ req[r1].u # req[r2].u
    /\ ~SomeLineFails(req[r1].snap) /\ ~SomeLineFails(req[r2].snap)
    /\ \E p \in Products :
          /\ SnapQty(req[r1].snap, p) > 0 /\ SnapQty(req[r2].snap, p) > 0
          /\ SnapQty(req[r1].snap, p) + SnapQty(req[r2].snap, p) > products[p].stock

\* C2: of two racing checkouts the one whose transaction runs first commits,
\* its order written and each stock lowered by exactly its quantity; and a
\* checkout transaction that finds a line over stock (as the other one then
\* does) fails with the insufficient-stock error and changes nothing.
C2_ExactlyOneCommits ==
    [][/\ \A r1, r2 \in Slots : (Racing(r1, r2) /\ TxStep(r1)) =>
              (req'[r1].pc = "co_get" /\ AllWritten(r1))
       /\ \A r \in Slots :
              (TxStep(r) /\ AllExist(req[r].snap) /\ SomeLineFails(req[r].snap)) =>
                 /\ ReturnStep(r) /\ ~last'.res.ok
                 /\ last'.res.error =
                       InsufficientStock(products[FirstOverStock(req[r].snap).product_id].name)
                 /\ StoreUnchanged]_vars

\* C3: a checkout transaction that meets a line over stock, or a line whose
\* product is gone, fails and changes no product, cart row or order; and a
\* checkout transaction either changes none of them or lands all its writes in
\* the one step.
C3_CheckoutAtomic ==
    [][\A r \in Slots : TxStep(r) =>
          /\ SomeLineFails(req[r].snap) =>
                (StoreUnchanged /\ ReturnStep(r) /\ ~last'.res.ok)
          /\ StoreUnchanged \/ AllWritten(r)]_vars

\* C3 witness: the checkout of a two-line cart has failed on its second line
\* and both rows are still there, the first one within stock.
C3_Witness ==
    /\ last.op = "createOrder"
    /\ products[1].exists /\ products[2].exists
    /\ last.res.error = InsufficientStock(products[2].name)
    /\ cart[<<last.u, 1>>].exists /\ cart[<<last.u, 2>>].exists
    /\ cart[<<last.u, 1>>].quantity <= products[1].stock
    /\ cart[<<last.u, 2>>].quantity > products[2].stock

\* Sum of quantity * current price over the lines of a snapshot.
RECURSIVE SumLines(_)
SumLines(snap) ==
    IF snap = << >> THEN 0
    ELSE Head(snap).quantity * products[Head(snap).product_id].price
         + SumLines(Tail(snap))

\* C4: a checkout whose loaded cart is within stock on every line commits: the
\* order is Pending, has one item per line with the line's product, name,
\* quantity and current price, and total_amount = sum of quantity * price; the
\* loaded rows are gone and each stock is lower by the quantity bought; and the
\* call returns that order.
C4_CheckoutSucceeds ==
    [][\A r \in Slots :
          /\ (TxStep(r) /\ ~SomeLineFails(req[r].snap)) =>
                /\ req'[r].pc = "co_get"
                /\ AllWritten(r)
                /\ orders'[req[r].oid].status = "Pending"
                /\ orders'[req[r].oid].user_id = req[r].u
                /\ orders'[req[r].oid].total_amount = SumLines(req[r].snap)
                /\ Len(orders'[req[r].oid].items) = Len(req[r].snap)
                /\ \A i \in 1..Len(req[r].snap) :
                      orders'[req[r].oid].items[i] =
                         [product_id |-> req[r].snap[i].product_id,
                          name |-> products[req[r].snap[i].product_id].name,
                          quantity |-> req[r].snap[i].quantity,
                          price_at_purchase |-> products[req[r].snap[i].product_id].price]
          /\ (req[r].pc = "co_get" /\ ReturnStep(r)) =>
                (last'.res.ok /\ last'.res.order = orders[req[r].oid])]_vars

\* C5: a committed order never changes: its document, items and total_amount
\* included, is the same after every step, whatever request takes it.
C5_OrderImmutable ==
    [][\A o \in OrderIds : orders[o].exists => orders'[o] = orders[o]]_vars

\* C5 witness: an order stands whose product was since edited or deleted.
C5_Witness ==
    \E o \in OrderIds :
        /\ orders[o].exists
        /\ \E i \in 1..Len(orders[o].items) :
              LET it == orders[o].items[i] IN
              \/ ~products[it.product_id].exists
              \/ products[it.product_id].name # it.name

NoDup(seq) == \A i, j \in 1..Len(seq) : i # j => seq[i] # seq[j]

InFlightOrder(r) == req[r].pc \in {"co_tx", "co_get"}

\* C6: nextId never returns one value twice for a key, whatever the
\* interleaving of its callers; and the order id of a checkout whose
\* transaction failed is no order's id, nor the id of a checkout in flight.
C6_IdsUnique ==
    /\ \A k \in CounterKeys : NoDup(issued[k])
    /\ \A o \in abandoned : ~orders[o].exists
    /\ \A r \in Slots : InFlightOrder(r) => req[r].oid \notin abandoned
    /\ \A r \in Slots : req[r].pc = "co_tx" => ~orders[req[r].oid].exists
    /\ \A r1, r2 \in Slots :
          (r1 # r2 /\ InFlightOrder(r1) /\ InFlightOrder(r2)) => req[r1].oid # req[r2].oid
    /\ \A r1, r2 \in Slots :
          (r1 # r2 /\ req[r1].pc = "cp_set" /\ req[r2].pc = "cp_set") => req[r1].p # req[r2].p

\* C6 witness: an order stands under an id minted after an abandoned one, and
\* a product id was minted too.
C6_Witness ==
    /\ \E a \in abandoned, o \in OrderIds : orders[o].exists /\ o > a
    /\ Len(issued["products"]) > NProducts

\* C7: the values nextId returns for a key are 1, 2, 3, ... in this order, the
\* counter holds the next one, and a nextId transaction that fails leaves the
\* counters as they were.
C7_IdsConsecutive ==
    /\ [](\A k \in CounterKeys :
             /\ \A i \in 1..Len(issued[k]) : issued[k][i] = i
             /\ counters[k].exists /\ counters[k].value = Len(issued[k]) + 1)
    /\ [][(last'.res.error = StoreUnavailable /\ issued' = issued)
             => counters' = counters]_vars

\* C7 witness: a nextId transaction has just failed and two order ids were
\* issued before.
C7_Witness ==
    /\ last.res.error = StoreUnavailable
    /\ Len(issued["orders"]) >= 2

\* C8: a successful addToCart leaves the row of (user, product) with quantity
\* min(previous quantity + requested, stock), previous being 0 without a row;
\* and it succeeds whenever the product exists with stock >= requested, also
\* when previous + requested exceeds the stock.
C8_AddToCartClamps ==
    [][AddStep =>
          LET u == last'.u
              p == last'.p
              q == last'.q
              prev == IF cart[<<u, p>>].exists THEN cart[<<u, p>>].quantity ELSE 0
              s == products[p].stock IN
          /\ last'.res.ok =>
                /\ cart'[<<u, p>>].exists
                /\ cart'[<<u, p>>].quantity = (IF prev + q <= s THEN prev + q ELSE s)
          /\ (products[p].exists /\ q <= s) => last'.res.ok]_vars

\* C8 witness: an addToCart has succeeded on a row whose quantity plus the
\* request exceeded the stock, and the row holds the stock.
C8_Witness ==
    /\ last.op = "addToCart" /\ last.res.ok
    /\ last.rd > 0
    /\ products[last.p].exists
    /\ last.rd + last.q > products[last.p].stock
    /\ cart[<<last.u, last.p>>] = Row(last.u, last.p, products[last.p].stock)

\* C9 as stated: on an empty cart, addToCart of more than the stock succeeds
\* and leaves the row with the stock as its quantity.
C9_ClampOnEmptyCart ==
    [][AddStep =>
          LET u == last'.u
              p == last'.p
              q == last'.q IN
          (products[p].exists /\ ~cart[<<u, p>>].exists /\ q > products[p].stock) =>
             (last'.res.ok /\ cart'[<<u, p>>] = Row(u, p, products[p].stock))]_vars

\* C9 amended: on an empty cart, addToCart of more than the stock is refused
\* with "Not enough stock available." and leaves no row; a request within the
\* stock succeeds and leaves the row with the requested quantity.
C9_RefusedOnEmptyCart ==
    [][AddStep =>
          LET u == last'.u
              p == last'.p
              q == last'.q IN
          (products[p].exists /\ ~cart[<<u, p>>].exists) =>
             /\ q > products[p].stock =>
                   /\ ~last'.res.ok
                   /\ last'.res.error = NotEnoughStock
                   /\ ~cart'[<<u, p>>].exists
             /\ q <= products[p].stock =>
                   (last'.res.ok /\ cart'[<<u, p>>] = Row(u, p, q))]_vars

\* C9 witness: an addToCart of more than the stock was refused and the user
\* has no row for the product.
C9_Witness ==
    /\ last.op = "addToCart"
    /\ last.res.error = NotEnoughStock
    /\ products[last.p].exists
    /\ last.q > products[last.p].stock
    /\ ~cart[<<last.u, last.p>>].exists

\* C10: addToCart fails with "Product not found." when the product does not
\* exist and with "Not enough stock available." when its stock is below the
\* requested quantity, whatever the cart holds; neither failure touches a row.
C10_AddToCartRefusals ==
    [][AddStep =>
          LET p == last'.p
              q == last'.q IN
          /\ ~products[p].exists =>
                /\ ~last'.res.ok
                /\ last'.res.error = ProductNotFound
                /\ cart' = cart
          /\ (products[p].exists /\ products[p].stock < q) =>
                /\ ~last'.res.ok
                /\ last'.res.error = NotEnoughStock
                /\ cart' = cart]_vars

\* C10 witness: an addToCart was refused for stock although the user's row
\* for the product holds less than the stock, and the product is still there.
C10_Witness ==
    /\ last.op = "addToCart"
    /\ last.res.error = NotEnoughStock
    /\ products[last.p].exists
    /\ cart[<<last.u, last.p>>].exists
    /\ cart[<<last.u, last.p>>].quantity < products[last.p].stock

\* The step in which a call of op starts in slot r and goes on to pc.
StartStep(r, pc) == req[r].pc = "idle" /\ req'[r].pc = pc

\* C11: updateCartItem(user, product, newQty) with newQty <= 0 deletes the row
\* of (user, product) and reports removal, whether or not the product exists;
\* with newQty > 0 and the product missing it fails with "Product not found."
\* and leaves the cart unchanged; otherwise it reads the product's stock and
\* then upserts the row with quantity = min(newQty, the stock it read).
C11_UpdateCartItem ==
    [][/\ AtomicStep("updateCartItem") =>
             LET u == last'.u
                 p == last'.p
                 q == last'.q IN
             /\ q <= 0 =>
                   /\ last'.res.ok /\ last'.res.removed
                   /\ cart' = [cart EXCEPT ![<<u, p>>] = NoRow]
             /\ q > 0 =>
                   /\ ~products[p].exists
                   /\ ~last'.res.ok /\ last'.res.error = ProductNotFound
                   /\ cart' = cart
       /\ \A r \in Slots : StartStep(r, "uc_set") =>
             /\ req'[r].q > 0
             /\ products[req'[r].p].exists
             /\ req'[r].rd = products[req'[r].p].stock
             /\ cart' = cart
       /\ \A r \in Slots : (req[r].pc = "uc_set" /\ ReturnStep(r)) =>
             LET u == req[r].u
                 p == req[r].p
                 q == req[r].q IN
             /\ last'.res.ok /\ ~last'.res.removed
             /\ last'.u = u /\ last'.p = p /\ last'.q = q
             /\ cart' = [cart EXCEPT ![<<u, p>>] =
                           Row(u, p, IF q <= req[r].rd THEN q ELSE req[r].rd)]]_vars

\* C11 witness: an updateCartItem asking for more than the stock has returned
\* and the row holds the stock; the product is as the call read it.
C11_Witness ==
    /\ last.op = "updateCartItem" /\ last.res.ok /\ ~last.res.removed
    /\ last.q > last.rd /\ last.rd > 0
    /\ products[last.p].exists /\ products[last.p].stock = last.rd
    /\ cart[<<last.u, last.p>>] = Row(last.u, last.p, last.rd)

\* C12: every cart row that exists has a quantity >= 1, in every reachable
\* state, whatever addToCart, updateCartItem, removeCartItem, createOrder and
\* the admin's stock edits did before (products of stock 0 included).
C12_QuantityPositive ==
    \A k \in CartRefs : cart[k].exists => cart[k].quantity >= 1

\* No request is in flight.
Quiet == \A r \in Slots : req[r].pc = "idle"

\* C13: once deleteProduct(p) and every request concurrent with it have
\* returned, no cart row references p, whatever the interleaving with
\* addToCart and updateCartItem on p; and no step of deleteProduct changes an
\* order.
C13_DeleteCascades ==
    /\ [](\A p \in Products :
             (Quiet /\ ~products[p].exists) =>
                \A k \in CartRefs : cart[k].exists => cart[k].product_id # p)
    /\ [][\A r \in Slots :
             (StartStep(r, "dp_query")
                \/ (req[r].op = "deleteProduct" /\ req'[r] # req[r])) =>
                orders' = orders]_vars

HasRows(u) == \E k \in CartRefs : cart[k].exists /\ cart[k].user_id = u

\* C14: createOrder of a user without cart rows fails with "Your cart is
\* empty." before an order id is minted: it writes no order, changes no stock
\* and leaves the orders counter as it was; only a user with rows goes on to
\* nextId.
C14_EmptyCartFirst ==
    [][/\ \A r \in Slots : StartStep(r, "co_nextId") => HasRows(req'[r].u)
       /\ AtomicStep("createOrder") =>
             /\ ~HasRows(last'.u)
             /\ ~last'.res.ok /\ last'.res.error = EmptyCart
             /\ UNCHANGED << counters, products, cart, orders, issued >>]_vars

\* C14 witness: a user whose order was committed has called createOrder again
\* and got the empty-cart failure, the counter still at the next id.
C14_Witness ==
    /\ last.op = "createOrder" /\ last.res.error = EmptyCart
    /\ \E o \in OrderIds : orders[o].exists /\ orders[o].user_id = last.u
    /\ counters["orders"].value = Len(issued["orders"]) + 1
    /\ \E u \in Users : HasRows(u)

\* The documents of cart_items that hold the pair (u, p).
RowsOf(u, p) ==
    { k \in CartRefs : cart[k].exists /\ cart[k].user_id = u /\ cart[k].product_id = p }

\* C15: for every (user, product) pair at most one cart row exists in every
\* reachable state, also after repeated and concurrent addToCart and
\* updateCartItem calls for the pair: the row of the pair is the one document
\* whose id is built from the pair.
C15_OneRowPerPair ==
    /\ \A u \in Users, p \in Products : Cardinality(RowsOf(u, p)) <= 1
    /\ \A k \in CartRefs : cart[k].exists => k = <<cart[k].user_id, cart[k].product_id>>

\* C15 witness: a second addToCart for a pair has succeeded on its row while an
\* updateCartItem for the same pair is between its read and its write.
C15_Witness ==
    /\ last.op = "addToCart" /\ last.res.ok /\ last.rd > 0
    /\ RowsOf(last.u, last.p) # {}
    /\ \E r \in Slots :
          req[r].pc = "uc_set" /\ req[r].u = last.u /\ req[r].p = last.p

\* C16: removeCartItem returns without error and deletes the row of its pair
\* and nothing else; on an absent row it leaves the whole store unchanged, and
\* the row is absent after every call, so that a second call changes nothing.
C16_RemoveIdempotent ==
    [][AtomicStep("removeCartItem") =>
          LET u == last'.u
              p == last'.p IN
          /\ last'.res.ok /\ last'.res.error = ""
          /\ cart' = [cart EXCEPT ![<<u, p>>] = NoRow]
          /\ ~cart[<<u, p>>].exists => cart' = cart
          /\ \A k \in CartRefs :
                ~(cart'[k].exists /\ cart'[k].user_id = u /\ cart'[k].product_id = p)
          /\ UNCHANGED << counters, products, orders >>]_vars

\* C16 witness: the first call of a run was a removeCartItem, on a cart that
\* had no rows, and it returned without error.
C16_Witness ==
    /\ last.op = "removeCartItem" /\ last.res.ok
    /\ nops = 1
    /\ \A k \in CartRefs : ~cart[k].exists

\* The score the six rules give a product for a normalized query, added up.
RuleScore(p, key) ==
    LET name == NormalizeText(products[p].name)
        desc == NormalizeText(products[p].description)
        tokens == Split(key) IN
    (IF name = key THEN 100 ELSE 0)
    + (IF StartsWith(name, key) THEN 60 ELSE 0)
    + (IF Includes(name, key) THEN 40 ELSE 0)
    + (IF EveryToken(tokens, name) THEN 30 ELSE 0)
    + (IF Includes(desc, key) THEN 10 ELSE 0)
    + (IF EveryToken(tokens, desc) THEN 5 ELSE 0)

SearchReturned == last.op = "listProducts" /\ last.q # NoText

\* C17: for a free-text query listProducts returns exactly the products whose
\* added-up rule score is above 0, each once, ordered by score descending and,
\* on equal scores, by created_at descending; the query "iphone" over "iPhone
\* 16 Pro" and "Wireless Earbuds Pro" (described as earbuds) returns only
\* "iPhone 16 Pro".
C17_ListProductsRanks ==
    SearchReturned =>
       LET list == last.res.list
           key == last.rd IN
       /\ \A i \in 1..Len(list) :
             products[list[i]].exists /\ RuleScore(list[i], key) > 0
       /\ \A p \in ProductIds :
             (products[p].exists /\ RuleScore(p, key) > 0) =>
                Cardinality({ i \in 1..Len(list) : list[i] = p }) = 1
       /\ \A i, j \in 1..Len(list) : i < j =>
             \/ RuleScore(list[i], key) > RuleScore(list[j], key)
             \/ /\ RuleScore(list[i], key) = RuleScore(list[j], key)
                /\ products[list[i]].created_at >= products[list[j]].created_at
       /\ last.q = Text_Query_iphone =>
             \A p \in ProductIds :
                /\ (products[p].exists /\ products[p].name = Text_iPhone16Pro) =>
                      \E i \in 1..Len(list) : list[i] = p
                /\ (/\ products[p].exists
                    /\ products[p].name = Text_WirelessEarbudsPro
                    /\ products[p].description = Text_Earbuds) =>
                      \A i \in 1..Len(list) : list[i] # p
       /\ (/\ last.q = Text_Query_iphone
           /\ \A p \in ProductIds : products[p].exists <=> p \in {1, 2}
           /\ products[1].name = Text_iPhone16Pro
           /\ products[2].name = Text_WirelessEarbudsPro
           /\ products[2].description = Text_Earbuds) => list = << 1 >>

\* C17 witness: two products of the same score above 100 came back newest
\* first, against the order of their ids.
C17_Witness ==
    /\ SearchReturned
    /\ last.res.list = << 2, 1 >>
    /\ RuleScore(1, last.rd) = RuleScore(2, last.rd)
    /\ RuleScore(1, last.rd) > 100
    /\ products[2].created_at > products[1].created_at

\* What normalization makes of one character: the base letter of an accented
\* letter, d for both forms of the barred d, the lower-case letter of an
\* upper-case one, nothing of a combining mark.
Folded(c) ==
    IF c \in CombiningMarks THEN << >>
    ELSE IF c = "U+00E1" THEN << "a" >>
    ELSE IF c = "U+1EBF" THEN << "e" >>
    ELSE IF c \in { "U+0110", "U+0111" } THEN << "d" >>
    ELSE << LowerChar(c) >>

RECURSIVE FoldAll(_)
FoldAll(t) == IF t = << >> THEN << >> ELSE Folded(Head(t)) \o FoldAll(Tail(t))

\* The text between its first and its last character that is not whitespace.
Inner(t) ==
    LET solid == { i \in 1..Len(t) : t[i] \notin Whitespace } IN
    IF solid = {} THEN << >>
    ELSE SubSeq(t, CHOOSE i \in solid : \A j \in solid : i <= j,
                   CHOOSE i \in solid : \A j \in solid : i >= j)

\* Every run of whitespace replaced by one space.
RECURSIVE Collapsed(_)
Collapsed(t) ==
    IF Len(t) < 2 THEN t
    ELSE IF t[1] \in Whitespace /\ t[2] \in Whitespace THEN Collapsed(Tail(t))
    ELSE << Head(t) >> \o Collapsed(Tail(t))

Normalized == last.op \in { "normalizeText", "listProducts" }

\* C18 as stated: normalization strips diacritics, maps the barred d to d,
\* lower-cases, trims and collapses every run of internal whitespace to one
\* space.
C18_NormalizeCollapses ==
    Normalized => last.rd = Collapsed(Inner(FoldAll(last.q)))

\* C18 amended: normalization strips diacritics, maps the barred d to d,
\* lower-cases and trims; internal whitespace stays as it is, so a name with two
\* spaces between its words does not contain the query with one.
C18_NormalizeKeepsSpaces ==
    /\ Normalized => last.rd = Inner(FoldAll(last.q))
    /\ (last.op = "normalizeText" /\ last.q = Text_iPhone16Pro_Spaced) =>
          ~Includes(last.rd, NormalizeText(Text_Query_iphone16))

\* C18 witness: a padded text with accents, the barred D and two spaces between
\* its words came back folded and trimmed with the two spaces still in it.
C18_Witness ==
    /\ last.op = "normalizeText"
    /\ last.q = Text_Padded
    /\ last.rd = << "d", "e", " ", " ", "p", "r", "o" >>

\* The checkout transaction of r commits in this step.
CommitStep(r) == TxStep(r) /\ req'[r].pc = "co_get"

\* An order of the same user already holds the lines r loaded, and the rows r
\* loaded are gone: the cart r loaded was converted by another checkout.
AlreadyConverted(r) ==
    /\ \A i \in 1..Len(req[r].snap) : ~cart[req[r].snap[i].ref].exists
    /\ \E o \in OrderIds :
          /\ orders[o].exists /\ orders[o].user_id = req[r].u
          /\ Len(orders[o].items) = Len(req[r].snap)
          /\ \A i \in 1..Len(req[r].snap) :
                /\ orders[o].items[i].product_id = req[r].snap[i].product_id
                /\ orders[o].items[i].quantity = req[r].snap[i].quantity

C22_StockWritesTransactional ==
    [][\A p \in Products :
          (/\ products[p].exists /\ products'[p].exists
           /\ products'[p].stock # products[p].stock) =>
             \E r \in Slots : CommitStep(r) /\ SnapHas(req[r].snap, p)]_vars

\* The quantity of product p over the lines of a sequence of order items.
RECURSIVE ItemsQty(_, _)
ItemsQty(items, p) ==
    IF items = << >> THEN 0
    ELSE (IF Head(items).product_id = p THEN Head(items).quantity ELSE 0)
         + ItemsQty(Tail(items), p)

\* The quantity of product p over all committed orders with ids up to o.
RECURSIVE OrderedQty(_, _)
OrderedQty(o, p) ==
    IF o = 0 THEN 0
    ELSE (IF orders[o].exists THEN ItemsQty(orders[o].items, p) ELSE 0)
         + OrderedQty(o - 1, p)

\* C23: with no admin at work, for every product the seeded stock minus the
\* current stock is the sum of the product's line quantities over all committed
\* orders, in every reachable state.
C23_StockConserved ==
    \A p \in Products :
        SeedStock(p) - products[p].stock = OrderedQty(MaxId, p)

\* C23 witness: two orders of different users hold lines of product 1 and its
\* stock is down by both.
C23_Witness ==
    /\ \E o1, o2 \in OrderIds :
          /\ orders[o1].exists /\ orders[o2].exists
          /\ orders[o1].user_id # orders[o2].user_id
          /\ ItemsQty(orders[o1].items, 1) > 0
          /\ ItemsQty(orders[o2].items, 1) > 0
    /\ products[1].stock = 0


\* C24: inside the checkout transaction every tx.get is issued before the first
\* tx.set, tx.update or tx.delete: whenever a checkout is about to run its
\* transaction, the calls the callback will issue have all reads first.
C24_ReadsBeforeWrites ==
    \A r \in Slots :
        req[r].pc = "co_tx" =>
            ReadsBeforeWrites(TransactionCalls(req[r].snap, products))


\* The operations on a user's cart.
CartOps == {"addToCart", "updateCartItem", "removeCartItem", "createOrder"}

\* The step is one of a cart operation called for user u.
ActsFor(u) ==
    \/ /\ nops' = nops + 1 /\ req' = req
       /\ last'.op \in CartOps /\ last'.u = u
    \/ \E r \in Slots :
          /\ req'[r] # req[r]
          /\ \/ req[r].op \in CartOps /\ req[r].u = u
             \/ req'[r].op \in CartOps /\ req'[r].u = u

\* C25: a step of addToCart, updateCartItem, removeCartItem or createOrder
\* called for user u creates, modifies or deletes only rows under u's keys
\* that hold u's user_id; the rows a committing checkout deletes are rows of
\* the ordering user.
C25_OwnRowsOnly ==
    [][/\ \A u \in Users :
             ActsFor(u) =>
                \A k \in CartRefs :
                    cart'[k] # cart[k] =>
                       /\ k[1] = u
                       /\ cart[k].exists => cart[k].user_id = u
                       /\ cart'[k].exists => cart'[k].user_id = u
       /\ \A r \in Slots :
             CommitStep(r) =>
                \A k \in CartRefs :
                    (cart[k].exists /\ ~cart'[k].exists) =>
                        cart[k].user_id = req[r].u]_vars

\* C25 witness: user 1 has checked out, the cart of user 1 is empty, and the
\* row user 2 holds for product 1 is still there.
C25_Witness ==
    /\ last.op = "createOrder" /\ last.u = 1 /\ last.res.ok
    /\ ~HasRows(1)
    /\ cart[<< 2, 1 >>].exists /\ cart[<< 2, 1 >>].user_id = 2
    /\ \E o \in OrderIds : orders[o].exists /\ orders[o].user_id = 1


\* C26: ensureCounterDocs writes a counter only if it read it absent, and no
\* step removes, lowers or resets a counter that has issued ids; the values
\* nextId has returned for a key stay distinct, whatever the interleaving of
\* starting instances with callers of nextId.
C26_CountersKept ==
    [][\A k \in CounterKeys :
          /\ (counters[k].exists /\ issued[k] # << >>) =>
                /\ counters'[k].exists
                /\ counters'[k].value >= counters[k].value
          /\ NoDup(issued'[k])]_vars

\* C27: in every reachable state no two user documents hold the same email.
C27_EmailsUnique ==
    \A i, j \in UserIds :
        (i # j /\ users[i].exists /\ users[j].exists) =>
            users[i].email # users[j].email
=============================================================================
